---- MODULE Spec2Model ----
(***************************************************************************)
(* Driver-based financial forecasting tool (src/app.py, src/newapp.py).    *)
(*                                                                         *)
(* One run of the script is modelled as a sequential pass: the uploaded    *)
(* sheet is read, optional columns are filled, the sidebar overrides are   *)
(* applied, every row goes through calculate_forecast_from_row, the result *)
(* is filtered, aggregated and rendered, and any exception ends the pass   *)
(* in the single except handler.                                           *)
(*                                                                         *)
(* Numbers.  The scripts compute in Python floats.  A number is modelled   *)
(* as an integer count of hundredths (Scale), and every arithmetic         *)
(* operation returns the exact result rounded to the nearest value with    *)
(* at most Digits significant decimal digits, ties to even: the rounding   *)
(* discipline of IEEE-754 arithmetic, at a precision small enough to be    *)
(* enumerated (binary64 keeps 53 bits, about 16 digits).                   *)
(***************************************************************************)
EXTENDS Integers, Sequences, FiniteSets, TLC

\* ------------------------------------------------------------ bounds
\* Largest number of rows in an uploaded sheet.
MaxRows == 3
\* Significant decimal digits kept by one arithmetic operation.
Digits == 5

\* ------------------------------------------------------------ numbers
\* Hundredths per unit: 25.00 is 2500.
Scale == 100

Num(whole, hundredths) == whole * Scale + hundredths

Abs(n) == IF n < 0 THEN 0 - n ELSE n

RECURSIVE Pow10(_)
Pow10(k) == IF k = 0 THEN 1 ELSE 10 * Pow10(k - 1)

\* How many low digits a magnitude a has beyond the Digits kept.
RECURSIVE Exp10(_)
Exp10(a) == IF a < Pow10(Digits) THEN 0 ELSE 1 + Exp10(a \div 10)

\* The integer nearest to num / den (den > 0), ties to even.
RoundInt(num, den) ==
    LET q == num \div den
        r == num % den
    IN  IF 2 * r < den THEN q
        ELSE IF 2 * r > den THEN q + 1
        ELSE IF q % 2 = 0 THEN q ELSE q + 1

\* The representable number nearest to the rational num / den (den # 0).
RoundQ(num, den) ==
    LET n == IF den < 0 THEN 0 - num ELSE num
        d == Abs(den)
        k == Exp10(Abs(n) \div d)
    IN  RoundInt(n, d * Pow10(k)) * Pow10(k)

\* The representable number nearest to the integer count n.
Fl(n) == RoundQ(n, 1)

Add(a, b) == Fl(a + b)
Sub(a, b) == Fl(a - b)
\* a * b / Scale rounded once; the exact divisions first keep the
\* intermediate product small, the value is the same.
Mul(a, b) ==
    IF b % Scale = 0 THEN Fl(a * (b \div Scale))
    ELSE IF a % Scale = 0 THEN Fl((a \div Scale) * b)
    ELSE RoundQ(a * b, Scale)
\* a / b, rounded once.
Div(a, b) ==
    IF b % Scale = 0 THEN RoundQ(a, b \div Scale) ELSE RoundQ(a * Scale, b)

\* ------------------------------------------------------------ columns
RequiredColumns ==
    {"Scenario", "Product", "Units Sold", "Price per Unit", "FX Rate",
     "COGS %", "Operating Expenses"}
OptionalColumns == {"Region", "Year", "Depreciation", "Tax Rate"}
AllColumns == RequiredColumns \cup OptionalColumns

\* row.get(key, default)
Get(row, key, default) == IF key \in DOMAIN row THEN row[key] ELSE default

\* A row of the sheet restricted to the columns the sheet has.
Restrict(row, cols) == [c \in (DOMAIN row) \cap cols |-> row[c]]

\* df[col] = value: the column is set (or added) in every row.
SetColumn(frame, col, value) ==
    [i \in 1..Len(frame) |->
        [c \in (DOMAIN frame[i]) \cup {col} |->
            IF c = col THEN value ELSE frame[i][c]]]

\* ------------------------------------------------------------ calculator
Ebitda(gross_margin, opex, dep) == Add(Sub(gross_margin, opex), dep)

\* A slip: Depreciation is not taken back out of EBITDA.
OperatingProfitKeepsDep(ebitda, dep) == ebitda

OperatingProfit(ebitda, dep) == Sub(ebitda, dep)

\* A slip: the margin of a record without revenue defaults to 1 (100 %).
MarginPctDefaultsToOne(x, revenue_local) ==
    Mul(IF revenue_local # 0 THEN Div(x, revenue_local) ELSE Num(1, 0),
        Num(100, 0))

\* x / revenue_local if revenue_local else 0, then * 100 in the result.
MarginPct(x, revenue_local) ==
    Mul(IF revenue_local # 0 THEN Div(x, revenue_local) ELSE 0, Num(100, 0))

\* A slip: Depreciation is deducted, not added back.
CashFlowLessDep(net_income, dep) == Sub(net_income, dep)

CashFlow(net_income, dep) == Add(net_income, dep)

\* The keys the function reads with row[...]: a missing one raises KeyError.
KeysRead(a) ==
    RequiredColumns \cup (IF a = "newapp" THEN {"Depreciation"} ELSE {})

RaisesKeyError(a, row) == ~(KeysRead(a) \subseteq DOMAIN row)

Passthrough(a, row) ==
    IF a = "newapp"
    THEN ("Operating Expenses" :> row["Operating Expenses"]) @@
         ("Depreciation" :> row["Depreciation"])
    ELSE << >>

calculate_forecast_from_row(a, row) ==
    LET revenue_local == Mul(row["Units Sold"], row["Price per Unit"])
        revenue_group == Mul(revenue_local, row["FX Rate"])
        cogs == Mul(revenue_local, row["COGS %"])
        gross_margin == Sub(revenue_local, cogs)
        ebitda == Ebitda(gross_margin, row["Operating Expenses"],
                         Get(row, "Depreciation", 0))
        operating_profit == OperatingProfit(ebitda, Get(row, "Depreciation", 0))
        tax == Mul(operating_profit, Get(row, "Tax Rate", Num(0, 25)))
        net_income == Sub(operating_profit, tax)
        cash_flow == CashFlow(net_income, Get(row, "Depreciation", 0))
    IN  ("Scenario" :> row["Scenario"]) @@
        ("Product" :> row["Product"]) @@
        ("Region" :> Get(row, "Region", "Unknown")) @@
        ("Year" :> Get(row, "Year", "N/A")) @@
        ("Revenue (Local)" :> revenue_local) @@
        ("Revenue (Group)" :> revenue_group) @@
        ("COGS" :> cogs) @@
        ("Gross Margin" :> gross_margin) @@
        ("Gross Margin %" :> MarginPct(gross_margin, revenue_local)) @@
        ("EBITDA" :> ebitda) @@
        ("Operating Profit (EBIT)" :> operating_profit) @@
        ("Operating Margin %" :> MarginPct(operating_profit, revenue_local)) @@
        ("Tax" :> tax) @@
        ("Net Income" :> net_income) @@
        ("Net Margin %" :> MarginPct(net_income, revenue_local)) @@
        ("Cash Flow" :> cash_flow) @@
        Passthrough(a, row)

\* ------------------------------------------------------------ pandas helpers
\* Lexicographic order of the labels that occur (Python's sorted / groupby).
SortedNames ==
    <<"2024", "2025", "Asia", "Base", "Best", "Europe", "N/A",
      "Product A", "Product B", "Unknown">>

Rank(name) == CHOOSE i \in 1..Len(SortedNames) : SortedNames[i] = name

\* The elements of S in ascending order.
Sorted(S) ==
    CHOOSE s \in [1..Cardinality(S) -> S] :
        \A i, j \in 1..Cardinality(S) : i < j => Rank(s[i]) < Rank(s[j])

\* frame[col].unique(), as a set.
Unique(frame, col) == {frame[i][col] : i \in 1..Len(frame)}

\* frame[col].sum(): accumulated in row order, 0 for no rows.
RECURSIVE SumCol(_, _)
SumCol(frame, col) ==
    IF Len(frame) = 0 THEN 0
    ELSE Add(SumCol(SubSeq(frame, 1, Len(frame) - 1), col),
             frame[Len(frame)][col])

\* One pass over the rows, adding each row's value to its key's bin.
RECURSIVE GroupAcc(_, _, _)
GroupAcc(frame, key, col) ==
    IF Len(frame) = 0 THEN << >>
    ELSE LET acc == GroupAcc(SubSeq(frame, 1, Len(frame) - 1), key, col)
             r == frame[Len(frame)]
         IN  IF r[key] \in DOMAIN acc
             THEN [acc EXCEPT ![r[key]] = Add(@, r[col])]
             ELSE acc @@ (r[key] :> r[col])

RECURSIVE GroupCount(_, _)
GroupCount(frame, key) ==
    IF Len(frame) = 0 THEN << >>
    ELSE LET acc == GroupCount(SubSeq(frame, 1, Len(frame) - 1), key)
             r == frame[Len(frame)]
         IN  IF r[key] \in DOMAIN acc
             THEN [acc EXCEPT ![r[key]] = @ + 1]
             ELSE acc @@ (r[key] :> 1)

\* The keys of column key in the order in which the rows first show them.
RECURSIVE FirstSeen(_, _)
FirstSeen(frame, key) ==
    IF Len(frame) = 0 THEN << >>
    ELSE LET before == FirstSeen(SubSeq(frame, 1, Len(frame) - 1), key)
             k == frame[Len(frame)][key]
         IN  IF \E n \in 1..Len(before) : before[n] = k THEN before
             ELSE Append(before, k)

\* The order in which groupby(key) lists its groups (sort=True by default).
GroupKeys(frame, key) == Sorted(Unique(frame, key))

\* '{:.1f}%'.format(v): v shown with one decimal, kept in hundredths.
FormatPct(v) == RoundInt(v, 10) * 10

\* A slip: the Year filter is left out of the mask.
FilterIgnoresYear(frame, s, regions, years) ==
    SelectSeq(frame, LAMBDA r : /\ r["Scenario"] = s
                                /\ r["Region"] \in regions)

\* results_df[(Scenario == s) & Region.isin(regions) & Year.isin(years)]
Filter(frame, s, regions, years) ==
    SelectSeq(frame, LAMBDA r : /\ r["Scenario"] = s
                                /\ r["Region"] \in regions
                                /\ r["Year"] \in years)

\* filtered_df.groupby('Region').agg({'Net Income': 'sum', 'Cash Flow': 'sum'})
RegionGrouped(frame) ==
    LET keys == GroupKeys(frame, "Region")
        ni == GroupAcc(frame, "Region", "Net Income")
        cf == GroupAcc(frame, "Region", "Cash Flow")
    IN  [i \in 1..Len(keys) |->
            [Region |-> keys[i], NetIncome |-> ni[keys[i]],
             CashFlow |-> cf[keys[i]]]]

MarginColumns == {"Gross Margin %", "Operating Margin %", "Net Margin %"}

\* newapp: groupby('Product')[margins].mean(), then formatted.
\* app:    the margin columns of the formatted detail table, row by row.
MarginSummary(a, frame) ==
    IF a = "newapp"
    THEN LET keys == GroupKeys(frame, "Product")
             n == GroupCount(frame, "Product")
         IN  [i \in 1..Len(keys) |->
                 [c \in MarginColumns \cup {"Product"} |->
                     IF c = "Product" THEN keys[i]
                     ELSE FormatPct(Div(GroupAcc(frame, "Product", c)[keys[i]],
                                        Num(n[keys[i]], 0)))]]
    ELSE [i \in 1..Len(frame) |->
             [c \in MarginColumns \cup {"Product"} |->
                 IF c = "Product" THEN frame[i]["Product"]
                 ELSE FormatPct(frame[i][c])]]

WaterfallColumns ==
    {"Revenue (Group)", "COGS", "Operating Expenses", "Depreciation", "Tax"}

\* filtered_df[[...]].sum(); selecting a column the frame lacks raises KeyError.
\* A frame with no rows still has the columns of results_df.
Agg(frame) == [c \in WaterfallColumns |-> SumCol(frame, c)]

\* agg['Revenue (Group)'] - agg['COGS'] - agg['Operating Expenses'] - agg['Tax']
WaterfallNetIncome(a) ==
    Sub(Sub(Sub(a["Revenue (Group)"], a["COGS"]), a["Operating Expenses"]),
        a["Tax"])

\* ------------------------------------------------------------ inputs
\* number_input(..., value=None): the widget left empty.
None == -1

Apps == {"app", "newapp"}

MkRow(scenario, product, region, year, units, price, fx, cogs, opex, dep, tax) ==
    ("Scenario" :> scenario) @@ ("Product" :> product) @@
    ("Region" :> region) @@ ("Year" :> year) @@
    ("Units Sold" :> units) @@ ("Price per Unit" :> price) @@
    ("FX Rate" :> fx) @@ ("COGS %" :> cogs) @@
    ("Operating Expenses" :> opex) @@ ("Depreciation" :> dep) @@
    ("Tax Rate" :> tax)

\* The first row of the sample template, a row of small amounts priced in
\* another currency, and a row that sells nothing.
SampleRow ==
    MkRow("Base", "Product A", "Asia", "2024", Num(1000, 0), Num(25, 0),
          Num(1, 0), Num(0, 60), Num(20000, 0), Num(2500, 0), Num(0, 25))
SmallRow ==
    MkRow("Base", "Product B", "Europe", "2025", Num(1, 0), Num(0, 25),
          Num(1, 10), Num(0, 60), Num(0, 3), Num(2500, 0), Num(0, 25))
IdleRow ==
    MkRow("Best", "Product B", "Asia", "2024", 0, Num(27, 0),
          Num(1, 10), Num(0, 65), Num(22000, 0), Num(2600, 0), Num(0, 25))

RowPool == {SampleRow, SmallRow, IdleRow}

\* The header rows of the sheets enumerated.
ColumnSets ==
    {AllColumns,
     AllColumns \ {"Tax Rate", "Depreciation"},
     AllColumns \ {"Region", "Year"},
     AllColumns \ {"Units Sold"}}

SeqsUpTo(S, n) == UNION {[1..k -> S] : k \in 0..n}

Sheet(cols, rows) ==
    [columns |-> cols,
     rows |-> [i \in 1..Len(rows) |-> Restrict(rows[i], cols)]]

Uploads == {Sheet(cols, rows) : cols \in ColumnSets, rows \in SeqsUpTo(RowPool, MaxRows)}

UnitsOverrides == {None, 0, Num(2, 0)}
PriceOverrides == {None, Num(0, 50)}
FxOverrides == {None, Num(1, 20)}

\* ------------------------------------------------------------ state
VARIABLES
    app,                \* which script runs
    pc,                 \* position of the run in the script
    uploaded_file,      \* the sheet as uploaded
    df,                 \* the input frame
    override_units, override_price, override_fx,
    results_df,
    scenario_selected, region_selected, year_selected,
    filtered_df,
    agg, net_income,    \* waterfall aggregation
    region_grouped,
    margin_summary,
    emitted,            \* charts, tables and downloads shown so far
    errors              \* st.error messages shown

vars ==
    <<app, pc, uploaded_file, df, override_units, override_price, override_fx,
      results_df, scenario_selected, region_selected, year_selected,
      filtered_df, agg, net_income, region_grouped, margin_summary, emitted,
      errors>>

inputVars == <<app, uploaded_file>>
overrideVars == <<override_units, override_price, override_fx>>
filterVars == <<scenario_selected, region_selected, year_selected, filtered_df>>
aggVars == <<agg, net_income>>

Start(a, file) ==
    /\ app = a
    /\ uploaded_file = file
    /\ pc = "start"
    /\ df = << >>
    /\ override_units = None
    /\ override_price = None
    /\ override_fx = None
    /\ results_df = << >>
    /\ scenario_selected = "Base"
    /\ region_selected = {}
    /\ year_selected = {}
    /\ filtered_df = << >>
    /\ agg = << >>
    /\ net_income = 0
    /\ region_grouped = << >>
    /\ margin_summary = << >>
    /\ emitted = << >>
    /\ errors = 0

Init == \E a \in Apps, file \in Uploads : Start(a, file)

\* ------------------------------------------------------------ the pass
\* df = pd.read_excel(uploaded_file).  The header names of the sheets
\* enumerated carry no surrounding blanks, so newapp's columns.str.strip()
\* leaves them as they are.
ReadExcel ==
    /\ pc = "start"
    /\ df' = uploaded_file.rows
    /\ pc' = "read"
    /\ UNCHANGED <<inputVars, overrideVars, results_df, filterVars, aggVars,
                   region_grouped, margin_summary, emitted, errors>>

\* if 'Tax Rate' not in df.columns: ...; if 'Depreciation' not in df.columns: ...
FillDefaults ==
    /\ pc = "read"
    /\ df' = LET withTax == IF "Tax Rate" \in uploaded_file.columns THEN df
                            ELSE SetColumn(df, "Tax Rate", Num(0, 25))
             IN  IF "Depreciation" \in uploaded_file.columns THEN withTax
                 ELSE SetColumn(withTax, "Depreciation", 0)
    /\ pc' = "defaults"
    /\ UNCHANGED <<inputVars, overrideVars, results_df, filterVars, aggVars,
                   region_grouped, margin_summary, emitted, errors>>

\* if override: a widget left empty (None) or set to 0 is falsy.
Truthy(override) == override # None /\ override # 0

Override(frame, col, override) ==
    IF Truthy(override) THEN SetColumn(frame, col, override) ELSE frame

ApplyOverrides ==
    /\ pc = "defaults"
    /\ \E u \in UnitsOverrides, p \in PriceOverrides, f \in FxOverrides :
        /\ override_units' = u
        /\ override_price' = p
        /\ override_fx' = f
        /\ df' = Override(Override(Override(df, "Units Sold", u),
                                   "Price per Unit", p), "FX Rate", f)
    /\ pc' = "overridden"
    /\ UNCHANGED <<inputVars, results_df, filterVars, aggVars, region_grouped,
                   margin_summary, emitted, errors>>

\* forecast_results = [calculate_forecast_from_row(row) for _, row in df.iterrows()]
Calculate ==
    /\ pc = "overridden"
    /\ \/ /\ \E i \in 1..Len(df) : RaisesKeyError(app, df[i])
          /\ pc' = "except"
          /\ UNCHANGED results_df
       \/ /\ \A i \in 1..Len(df) : ~RaisesKeyError(app, df[i])
          /\ results_df' =
                [i \in 1..Len(df) |-> calculate_forecast_from_row(app, df[i])]
          /\ pc' = "calculated"
    /\ UNCHANGED <<inputVars, df, overrideVars, filterVars, aggVars,
                   region_grouped, margin_summary, emitted, errors>>

\* except Exception as e: st.error(...)
Except ==
    /\ pc = "except"
    /\ errors' = errors + 1
    /\ pc' = "failed"
    /\ UNCHANGED <<inputVars, df, overrideVars, results_df, filterVars, aggVars,
                   region_grouped, margin_summary, emitted>>

\* The sidebar filters, filtered_df and (newapp) the waterfall aggregation.
\* A sheet without rows gives a results_df without columns: the lookup of
\* results_df['Scenario'] raises.
SelectFilters ==
    /\ pc = "calculated"
    /\ \/ /\ Len(results_df) = 0
          /\ pc' = "except"
          /\ UNCHANGED <<filterVars, aggVars>>
       \/ /\ Len(results_df) > 0
          /\ \E s \in Unique(results_df, "Scenario"),
                regions \in SUBSET Unique(results_df, "Region"),
                years \in SUBSET Unique(results_df, "Year") :
                /\ scenario_selected' = s
                /\ region_selected' = regions
                /\ year_selected' = years
                /\ filtered_df' = Filter(results_df, s, regions, years)
          /\ IF app = "newapp"
             THEN /\ agg' = Agg(filtered_df')
                  /\ net_income' = WaterfallNetIncome(agg')
             ELSE UNCHANGED aggVars
          /\ pc' = "filtered"
    /\ UNCHANGED <<inputVars, df, overrideVars, results_df, region_grouped,
                   margin_summary, emitted, errors>>

Emit(from, to, what) ==
    /\ pc = from
    /\ emitted' = Append(emitted, what)
    /\ pc' = to

RenderBar ==
    /\ Emit("filtered", "bar", "bar")
    /\ UNCHANGED <<inputVars, df, overrideVars, results_df, filterVars, aggVars,
                   region_grouped, margin_summary, errors>>

RenderPie ==
    /\ Emit("bar", "pie", "pie")
    /\ UNCHANGED <<inputVars, df, overrideVars, results_df, filterVars, aggVars,
                   region_grouped, margin_summary, errors>>

RenderRegion ==
    /\ region_grouped' = RegionGrouped(filtered_df)
    /\ Emit("pie", "region", "region")
    /\ UNCHANGED <<inputVars, df, overrideVars, results_df, filterVars, aggVars,
                   margin_summary, errors>>

\* app aggregates here, newapp has done so before the first chart.
RenderWaterfall ==
    /\ pc = "region"
    /\ IF app = "newapp"
       THEN /\ Emit("region", "waterfall", "waterfall")
            /\ UNCHANGED aggVars
       ELSE IF WaterfallColumns \subseteq DOMAIN results_df[1]
       THEN /\ agg' = Agg(filtered_df)
            /\ net_income' = WaterfallNetIncome(agg')
            /\ Emit("region", "waterfall", "waterfall")
       ELSE /\ pc' = "except"
            /\ UNCHANGED <<aggVars, emitted>>
    /\ UNCHANGED <<inputVars, df, overrideVars, results_df, filterVars,
                   region_grouped, margin_summary, errors>>

RenderTable ==
    /\ Emit("waterfall", "table", "table")
    /\ UNCHANGED <<inputVars, df, overrideVars, results_df, filterVars, aggVars,
                   region_grouped, margin_summary, errors>>

RenderMargin ==
    /\ margin_summary' = MarginSummary(app, filtered_df)
    /\ Emit("table", "margin", "margin")
    /\ UNCHANGED <<inputVars, df, overrideVars, results_df, filterVars, aggVars,
                   region_grouped, errors>>

Export ==
    /\ Emit("margin", "done", "download")
    /\ UNCHANGED <<inputVars, df, overrideVars, results_df, filterVars, aggVars,
                   region_grouped, margin_summary, errors>>

Next ==
    \/ ReadExcel
    \/ FillDefaults
    \/ ApplyOverrides
    \/ Calculate
    \/ SelectFilters
    \/ RenderBar
    \/ RenderPie
    \/ RenderRegion
    \/ RenderWaterfall
    \/ RenderTable
    \/ RenderMargin
    \/ Export
    \/ Except

Spec == Init /\ [][Next]_vars

\* ------------------------------------------------------------ the calculator alone
\* One-row sheets over a wider range of amounts, run up to the calculation.
CalcRows ==
    {MkRow("Base", "Product A", "Asia", "2024", u, p, f, c, o, d, t) :
        u \in {0, Num(1, 0), Num(40, 0)},
        p \in {Num(0, 25), Num(25, 0)},
        f \in {Num(1, 0), Num(1, 10)},
        c \in {Num(0, 60), Num(0, 65)},
        o \in {Num(0, 3), Num(300, 0)},
        d \in {0, Num(2500, 0)},
        t \in {0, Num(0, 25)}} \cup {SampleRow}

CalcUploads == {Sheet(cols, <<row>>) : cols \in ColumnSets, row \in CalcRows}

CalcInit == \E a \in Apps, file \in CalcUploads : Start(a, file)

CalcNext ==
    \/ ReadExcel
    \/ FillDefaults
    \/ ApplyOverrides
    \/ Calculate
    \/ Except

SpecCalc == CalcInit /\ [][CalcNext]_vars

\* ------------------------------------------------------------ properties
\* Row i of results_df was computed from row i of df (after defaults and
\* overrides); results_df is empty until the calculation has succeeded.
Rows == 1..Len(results_df)

Dep(i) == df[i]["Depreciation"]

Guarded(x, revenue_local) ==
    Mul(IF revenue_local # 0 THEN Div(x, revenue_local) ELSE 0, Num(100, 0))

IsSampleInput(r) ==
    /\ r["Units Sold"] = Num(1000, 0)
    /\ r["Price per Unit"] = Num(25, 0)
    /\ r["FX Rate"] = Num(1, 0)
    /\ r["COGS %"] = Num(0, 60)
    /\ r["Operating Expenses"] = Num(20000, 0)
    /\ r["Depreciation"] = Num(2500, 0)
    /\ r["Tax Rate"] = Num(0, 25)

IsSampleOutput(o) ==
    /\ o["Revenue (Local)"] = Num(25000, 0)
    /\ o["Revenue (Group)"] = Num(25000, 0)
    /\ o["COGS"] = Num(15000, 0)
    /\ o["Gross Margin"] = Num(10000, 0)
    /\ o["EBITDA"] = 0 - Num(7500, 0)
    /\ o["Operating Profit (EBIT)"] = 0 - Num(10000, 0)
    /\ o["Tax"] = 0 - Num(2500, 0)
    /\ o["Net Income"] = 0 - Num(7500, 0)
    /\ o["Cash Flow"] = 0 - Num(5000, 0)
    /\ o["Gross Margin %"] = Num(40, 0)
    /\ o["Operating Margin %"] = 0 - Num(40, 0)
    /\ o["Net Margin %"] = 0 - Num(30, 0)

\* C1: every output record holds the fields of the fixed model, each computed
\* from the ones before it in the stated order (the margins being 0 when
\* RevenueLocal is 0), and the sample record yields the stated figures.
C1_FixedModel ==
    \A i \in Rows :
        LET r == df[i]
            o == results_df[i]
        IN  /\ o["Revenue (Local)"] = Mul(r["Units Sold"], r["Price per Unit"])
            /\ o["Revenue (Group)"] = Mul(o["Revenue (Local)"], r["FX Rate"])
            /\ o["COGS"] = Mul(o["Revenue (Local)"], r["COGS %"])
            /\ o["Gross Margin"] = Sub(o["Revenue (Local)"], o["COGS"])
            /\ o["EBITDA"] =
                  Add(Sub(o["Gross Margin"], r["Operating Expenses"]), Dep(i))
            /\ o["Operating Profit (EBIT)"] = Sub(o["EBITDA"], Dep(i))
            /\ o["Tax"] = Mul(o["Operating Profit (EBIT)"], r["Tax Rate"])
            /\ o["Net Income"] = Sub(o["Operating Profit (EBIT)"], o["Tax"])
            /\ o["Cash Flow"] = Add(o["Net Income"], Dep(i))
            /\ o["Gross Margin %"] =
                  Guarded(o["Gross Margin"], o["Revenue (Local)"])
            /\ o["Operating Margin %"] =
                  Guarded(o["Operating Profit (EBIT)"], o["Revenue (Local)"])
            /\ o["Net Margin %"] = Guarded(o["Net Income"], o["Revenue (Local)"])
            /\ IsSampleInput(r) => IsSampleOutput(o)

C1_Witness ==
    /\ pc = "calculated"
    /\ \E i \in Rows : IsSampleInput(df[i]) /\ IsSampleOutput(results_df[i])

\* C2 as stated: for every record OperatingProfit equals
\* GrossMargin - OperatingExpenses, whatever the Depreciation.
C2_CancelsExactly ==
    \A i \in Rows :
        results_df[i]["Operating Profit (EBIT)"] =
            Sub(results_df[i]["Gross Margin"], df[i]["Operating Expenses"])

\* C2 amended: OperatingProfit equals GrossMargin - OperatingExpenses for
\* every record in which adding Depreciation to that difference is exact
\* (no rounding in the EBITDA step).
C2_CancelsWhenExact ==
    \A i \in Rows :
        LET x == Sub(results_df[i]["Gross Margin"], df[i]["Operating Expenses"])
        IN  Add(x, Dep(i)) = x + Dep(i)
                => results_df[i]["Operating Profit (EBIT)"] = x

C2_Witness ==
    /\ pc = "calculated"
    /\ \E i \in Rows :
        LET x == Sub(results_df[i]["Gross Margin"], df[i]["Operating Expenses"])
        IN  /\ Dep(i) > 0
            /\ x # 0
            /\ Add(x, Dep(i)) = x + Dep(i)
            /\ results_df[i]["EBITDA"] # x
            /\ results_df[i]["Operating Profit (EBIT)"] = x

\* C3: a record whose RevenueLocal is 0 gets three margins of 0, and a sheet
\* with every required column never takes the calculation to the handler.
C3_ZeroRevenue ==
    /\ \A i \in Rows :
          results_df[i]["Revenue (Local)"] = 0 =>
              \A c \in MarginColumns : results_df[i][c] = 0
    /\ RequiredColumns \subseteq uploaded_file.columns
          => pc \notin {"except", "failed"}

C3_Witness ==
    /\ pc = "calculated"
    /\ \E i \in Rows :
          /\ results_df[i]["Revenue (Local)"] = 0
          /\ results_df[i]["Operating Profit (EBIT)"] # 0
          /\ results_df[i]["Net Income"] # 0
          /\ \A c \in MarginColumns : results_df[i][c] = 0

\* C4 as stated: with a UnitsSold override V >= 0 entered, every output's
\* RevenueLocal is V * the row's PricePerUnit; an entered PricePerUnit or
\* FXRate override is the value of that column in every row.
C4_OverrideReplaces ==
    \A i \in Rows :
        /\ override_units # None =>
              results_df[i]["Revenue (Local)"] =
                  Mul(override_units, df[i]["Price per Unit"])
        /\ override_price # None => df[i]["Price per Unit"] = override_price
        /\ override_fx # None => df[i]["FX Rate"] = override_fx

\* C8 as stated: every output record carries Scenario, Product, Region
\* ("Unknown" if absent), Year ("N/A" if absent) and the input's Operating
\* Expenses and Depreciation unchanged, in both scripts.
C8_Passthrough ==
    \A i \in Rows :
        LET r == df[i]
            o == results_df[i]
        IN  /\ o["Scenario"] = r["Scenario"]
            /\ o["Product"] = r["Product"]
            /\ o["Region"] = (IF "Region" \in uploaded_file.columns
                              THEN r["Region"] ELSE "Unknown")
            /\ o["Year"] = (IF "Year" \in uploaded_file.columns
                            THEN r["Year"] ELSE "N/A")
            /\ {"Operating Expenses", "Depreciation"} \subseteq DOMAIN o
            /\ o["Operating Expenses"] = r["Operating Expenses"]
            /\ o["Depreciation"] = r["Depreciation"]

\* C5 as stated: a sheet with every required column (and at least one row)
\* that lacks Tax Rate and/or Depreciation is run with Tax Rate 0.25 and
\* Depreciation 0 in every row and never reaches the error branch, in
\* either script.
C5_DefaultsNoError ==
    (/\ RequiredColumns \subseteq uploaded_file.columns
     /\ ~({"Tax Rate", "Depreciation"} \subseteq uploaded_file.columns)
     /\ Len(uploaded_file.rows) > 0)
        => /\ pc \notin {"except", "failed"}
           /\ pc \notin {"start", "read"} =>
                 \A i \in 1..Len(df) :
                     /\ "Tax Rate" \notin uploaded_file.columns
                           => df[i]["Tax Rate"] = Num(0, 25)
                     /\ "Depreciation" \notin uploaded_file.columns
                           => df[i]["Depreciation"] = 0

\* C6 as stated: whenever the error branch is reached nothing has been
\* emitted before it, and exactly one error message is shown.
C6_NoPartialResults ==
    /\ pc \in {"except", "failed"} => emitted = << >>
    /\ pc = "failed" => errors = 1

\* The region summary has been computed.
RegionShown ==
    \/ pc \in {"region", "waterfall", "table", "margin", "done"}
    \/ pc \in {"except", "failed"} /\ Len(emitted) >= 3

MarginShown == pc \in {"margin", "done"}

Passes(i) ==
    /\ results_df[i]["Scenario"] = scenario_selected
    /\ results_df[i]["Region"] \in region_selected
    /\ results_df[i]["Year"] \in year_selected

\* The sum of column col over the first n output records that pass the
\* filters and belong to region.
RECURSIVE RegionSum(_, _, _)
RegionSum(n, region, col) ==
    IF n = 0 THEN 0
    ELSE IF Passes(n) /\ results_df[n]["Region"] = region
         THEN Add(RegionSum(n - 1, region, col), results_df[n][col])
         ELSE RegionSum(n - 1, region, col)

\* C7: the region summary has exactly one row per distinct Region among the
\* output records that pass the three filters, and its Net Income and Cash
\* Flow are the sums over exactly those records of that region.
C7_RegionSummary ==
    RegionShown =>
        /\ {region_grouped[k].Region : k \in 1..Len(region_grouped)} =
               {results_df[i]["Region"] : i \in {j \in Rows : Passes(j)}}
        /\ \A k, l \in 1..Len(region_grouped) :
               region_grouped[k].Region = region_grouped[l].Region => k = l
        /\ \A k \in 1..Len(region_grouped) :
               /\ region_grouped[k].NetIncome =
                     RegionSum(Len(results_df), region_grouped[k].Region,
                               "Net Income")
               /\ region_grouped[k].CashFlow =
                     RegionSum(Len(results_df), region_grouped[k].Region,
                               "Cash Flow")

C7_Witness ==
    /\ RegionShown
    /\ \E i, j, x \in Rows :
          /\ i # j
          /\ Passes(i) /\ Passes(j) /\ ~Passes(x)
          /\ results_df[i]["Region"] = results_df[j]["Region"]
          /\ results_df[x]["Region"] = results_df[i]["Region"]
          /\ results_df[i]["Net Income"] # 0
          /\ results_df[x]["Net Income"] # 0

\* C9 as stated: the rows of the region summary and of the product margin
\* summary are in the order in which each key is first seen in filtered_df.
C9_FirstSeenOrder ==
    /\ RegionShown =>
          [k \in 1..Len(region_grouped) |-> region_grouped[k].Region] =
              FirstSeen(filtered_df, "Region")
    /\ MarginShown /\ app = "newapp" =>
          [k \in 1..Len(margin_summary) |-> margin_summary[k]["Product"]] =
              FirstSeen(filtered_df, "Product")

\* C9 amended: the rows of the region summary and of the product margin
\* summary are in ascending order of their key.
C9_AscendingOrder ==
    /\ RegionShown =>
          \A k, l \in 1..Len(region_grouped) :
              k < l => Rank(region_grouped[k].Region) <
                           Rank(region_grouped[l].Region)
    /\ MarginShown /\ app = "newapp" =>
          \A k, l \in 1..Len(margin_summary) :
              k < l => Rank(margin_summary[k]["Product"]) <
                           Rank(margin_summary[l]["Product"])

C9_Witness ==
    /\ MarginShown
    /\ app = "newapp"
    /\ Len(region_grouped) = 2
    /\ filtered_df[1]["Region"] = region_grouped[2].Region
    /\ Len(margin_summary) = 2
    /\ filtered_df[1]["Product"] = margin_summary[2]["Product"]

\* C10 as stated: in newapp the waterfall's final Net Income equals the sum
\* of the Net Income field over the same filtered records.
C10_WaterfallMatches ==
    app = "newapp" /\ pc \in {"filtered", "bar", "pie", "region", "waterfall",
                             "table", "margin", "done"}
        => net_income = SumCol(filtered_df, "Net Income")

====
